---- MODULE Spec2Model ----
(***************************************************************************)
(* Model of js/three-animations.js: ThreeJSAnimator (one rendering context *)
(* bound to one canvas), HeroAnimator and AnimationManager (the registry   *)
(* of animators with staggered creation), together with the host events    *)
(* that drive them (frame callbacks, timers, visibilitychange,             *)
(* intersection and resize notifications, beforeunload).                   *)
(*                                                                         *)
(* Numbers are kept exact as scaled integers.  Math.random() returns       *)
(* k/RandDen for k in 0..RandDen-1; with D == RandDen the units are:       *)
(*   position, scale            1/(100*D)                                  *)
(*   size (userData.scale)      1/(10*D)                                   *)
(*   rotation                   [turn |-> k, lin |-> n] = k*2pi/D + n/(100*D) *)
(*   rotationSpeed, pulseSpeed  1/(100*D)                                  *)
(*   floatSpeed                 1/(200*D)                                  *)
(*   floatAmount                1/(10*D)                                   *)
(* Math.sin and Math.cos are sampled on a quarter-turn grid (SinQ, CosQ).  *)
(***************************************************************************)
EXTENDS Integers, Sequences, FiniteSets, TLC

\* ---------------------------------------------------------------- bounds
NumCards == 2        \* how many entries of cardConfigs the page is modelled with
MaxHandle == 4       \* requestAnimationFrame handles handed out in one run
MaxSeed == 0         \* seeds of the random number generator are 0..MaxSeed
MaxTime == 0         \* Date.now() samples are 0..MaxTime
RandDen == 6         \* resolution of Math.random(): k/RandDen
MaxDisposals == 2    \* renderer.dispose() calls on one renderer in one run
MaxSide == 2         \* canvas.clientWidth and clientHeight are in 1..MaxSide
MaxTooltips == 3     \* tooltip nodes attached to the document at once
MaxScroll == 2       \* scroll positions at and beyond the header threshold
MaxRequests == 2     \* updateHeader frame requests outstanding at once

\* ------------------------------------------------------ program constants
HeroObjects == 20
FocalObjects == 3
CardObjects == 3
StartupDelay == 500
StaggerInterval == 50
ScrollThreshold == 100

HeroId == "hero-canvas"

cardConfigs ==
  << [id |-> "about-canvas-1",        colors |-> <<65535, 6684876>>],
     [id |-> "about-canvas-2",        colors |-> <<16711935, 52326>>],
     [id |-> "about-canvas-3",        colors |-> <<16776960, 16737792>>],
     [id |-> "services-canvas-1",     colors |-> <<52326, 65535>>],
     [id |-> "services-canvas-2",     colors |-> <<16737792, 16711935>>],
     [id |-> "services-canvas-3",     colors |-> <<6684876, 16776960>>],
     [id |-> "services-canvas-4",     colors |-> <<65535, 16737792>>],
     [id |-> "collections-canvas-1",  colors |-> <<16711935, 52326>>],
     [id |-> "collections-canvas-2",  colors |-> <<16776960, 6684876>>],
     [id |-> "collections-canvas-3",  colors |-> <<65535, 16711935>>],
     [id |-> "testimonials-canvas-1", colors |-> <<52326, 16776960>>],
     [id |-> "testimonials-canvas-2", colors |-> <<16737792, 65535>>],
     [id |-> "testimonials-canvas-3", colors |-> <<6684876, 16711935>>],
     [id |-> "events-canvas-1",       colors |-> <<65535, 52326>>],
     [id |-> "events-canvas-2",       colors |-> <<16711935, 16776960>>],
     [id |-> "faq-canvas-1",          colors |-> <<16776960, 6684876>>],
     [id |-> "faq-canvas-2",          colors |-> <<52326, 16737792>>],
     [id |-> "careers-canvas-1",      colors |-> <<16737792, 65535>>],
     [id |-> "careers-canvas-2",      colors |-> <<6684876, 52326>>],
     [id |-> "contact-canvas-1",      colors |-> <<65535, 16711935>>],
     [id |-> "contact-canvas-2",      colors |-> <<16776960, 16737792>>] >>

\* the card configurations the modelled page uses
CardIndices == 1..NumCards
CardIds == { cardConfigs[i].id : i \in CardIndices }
Targets == {HeroId} \cup CardIds
Times == 0..MaxTime

\* the client sizes the layout can give a canvas: it trades width for height
Sizes == { [width |-> x, height |-> MaxSide + 1 - x] : x \in 1..MaxSide }

\* an argument left out of a call
undefined == "undefined"

\* the states of the generator behind Math.random()
Seeds == 0..15

\* kinds that no case of the switch names
unknownTypes == {"dodecahedron", "Sphere", ""}

randomTypes == <<"sphere", "cube", "torus", "octahedron", "icosahedron", "tetrahedron">>
heroTypes == <<"sphere", "cube", "torus", "octahedron", "icosahedron">>

VARIABLES
  phase,        \* "loading" | "ready" | "unsupported" : position of the page script
  webgl,        \* window.WebGLRenderingContext is defined
  canvases,     \* ids for which document.getElementById finds a canvas
  hidden,       \* document.hidden
  clientSize,   \* clientWidth and clientHeight the layout gives the canvases
  rng,          \* state of the generator behind Math.random()
  animator,     \* every constructed ThreeJSAnimator that has a canvas, by canvas id
  animators,    \* AnimationManager.animators: keys of the Map in insertion order
  intersecting, \* last entry.isIntersecting delivered per canvas: "none" | "yes" | "no"
  rafNext,      \* next handle requestAnimationFrame returns
  rafPending,   \* frame requests not yet fired or cancelled: [handle, id]
  startupTimer, \* the 500 ms timer of init() is pending
  cardTimers,   \* indices of cardConfigs whose stagger timer is pending
  console,      \* console.warn / console.error lines
  poolDisposed, \* AnimationManager.dispose() has been invoked
  menu,         \* NavigationManager: the mobile menu, its toggle and the body scroll lock
  tooltip,      \* MitskiApp: tooltip nodes attached to the body, currentTooltip, and
                \* the [data-tooltip] elements the pointer is over
  header        \* NavigationManager.setupScrollEffects: window.scrollY, ticking, the
                \* outstanding updateHeader requests and the style given to the header

vars == << phase, webgl, canvases, menu, tooltip, header, hidden, clientSize, rng, animator, animators, intersecting,
           rafNext, rafPending, startupTimer, cardTimers, console, poolDisposed >>

\* ------------------------------------------------------------ arithmetic
\* Math.random(): a generator of period 16 read at resolution RandDen
NextSeed(s) == (5 * s + 3) % 16
Random(s) == (s * RandDen) \div 16

RECURSIVE Advance(_, _)
Advance(s, n) == IF n = 0 THEN s ELSE Advance(NextSeed(s), n - 1)

\* the k-th value Math.random() returns from state s (k = 1 is the next one)
Rand(s, k) == Random(Advance(s, k - 1))

\* Math.sin / Math.cos of a whole number of quarter turns
SinQ(p) == CASE p % 4 = 0 -> 0 [] p % 4 = 1 -> 1 [] p % 4 = 2 -> 0 [] OTHER -> -1
CosQ(p) == SinQ(p + 1)

\* width / height as a fraction in lowest terms
RECURSIVE GCD(_, _)
GCD(a, b) == IF b = 0 THEN a ELSE GCD(b, a % b)

Ratio(a, b) == [num |-> a \div GCD(a, b), den |-> b \div GCD(a, b)]

\* ------------------------------------------------- ThreeJSAnimator (methods)
\* The methods read and write the animators, the generator, the frame-request
\* table and the console; a "world" carries them through nested calls and
\* collects, in calls, the host and renderer calls the handler makes, in order.
World ==
  [ animator |-> animator, rng |-> rng, rafNext |-> rafNext, rafPending |-> rafPending,
    console |-> console, clientSize |-> clientSize, calls |-> <<>>, thrown |-> FALSE ]

Call(w, fn, id, arg) ==
  [w EXCEPT !.calls = Append(@, [fn |-> fn, id |-> id, arg |-> arg])]

Lights ==
  { [kind |-> "AmbientLight", id |-> 0],
    [kind |-> "DirectionalLight", id |-> 0],
    [kind |-> "PointLight", id |-> 0] }

defaults == [size |-> 8 * RandDen, segments |-> 32, detail |-> 0]

\* the switch with the tetrahedron case building an octahedron
Geometry_TetraAsOcta(type, config) ==
  CASE type = "sphere" ->
         [class |-> "SphereGeometry", args |-> <<config.size, config.segments, config.segments>>]
    [] type = "cube" ->
         [class |-> "BoxGeometry", args |-> <<config.size, config.size, config.size>>]
    [] type = "torus" ->
         [class |-> "TorusGeometry", args |-> <<config.size * 7, config.size * 3, 16, 100>>]
    [] type = "octahedron" ->
         [class |-> "OctahedronGeometry", args |-> <<config.size>>]
    [] type = "icosahedron" ->
         [class |-> "IcosahedronGeometry", args |-> <<config.size, config.detail>>]
    [] type = "tetrahedron" ->
         [class |-> "OctahedronGeometry", args |-> <<config.size>>]
    [] OTHER ->
         [class |-> "SphereGeometry", args |-> <<config.size, config.segments, config.segments>>]

Geometry(type, config) ==
  CASE type = "sphere" ->
         [class |-> "SphereGeometry", args |-> <<config.size, config.segments, config.segments>>]
    [] type = "cube" ->
         [class |-> "BoxGeometry", args |-> <<config.size, config.size, config.size>>]
    [] type = "torus" ->
         [class |-> "TorusGeometry", args |-> <<config.size * 7, config.size * 3, 16, 100>>]
    [] type = "octahedron" ->
         [class |-> "OctahedronGeometry", args |-> <<config.size>>]
    [] type = "icosahedron" ->
         [class |-> "IcosahedronGeometry", args |-> <<config.size, config.detail>>]
    [] type = "tetrahedron" ->
         [class |-> "TetrahedronGeometry", args |-> <<config.size>>]
    [] OTHER ->
         [class |-> "SphereGeometry", args |-> <<config.size, config.segments, config.segments>>]

\* createFloatingGeometry(type = 'sphere', options = {}): 13 calls of
\* Math.random(), then scene.add and objects.push.  On an animator whose
\* constructor returned early (no canvas) this.scene is undefined and scene.add
\* throws.  An omitted options is passed as the record without fields, <<>>.
createFloatingGeometry(w, id, type0, options) ==
  LET type == IF type0 = undefined THEN "sphere" ELSE type0
      config == options @@ defaults
      s == w.rng
      D == RandDen
  IN  IF id \notin DOMAIN w.animator
      THEN [w EXCEPT !.rng = Advance(s, 13), !.thrown = TRUE]
      ELSE
        LET this == w.animator[id]
            position == [ x |-> 300 * (2 * Rand(s, 2) - D),
                          y |-> 300 * (2 * Rand(s, 3) - D),
                          z |-> 150 * (2 * Rand(s, 4) - D) ]
            mesh ==
              [ id |-> Len(this.objects) + 1,
                geometry |-> Geometry(type, config),
                material |-> [ color |-> [ space |-> "hex",
                                           value |-> IF 2 * Rand(s, 1) > D
                                                     THEN this.color1 ELSE this.color2 ] ],
                position |-> position,
                rotation |-> [ x |-> [turn |-> Rand(s, 5), lin |-> 0],
                               y |-> [turn |-> Rand(s, 6), lin |-> 0],
                               z |-> [turn |-> Rand(s, 7), lin |-> 0] ],
                scale |-> 100 * D,
                userData |->
                  [ rotationSpeed |-> [ x |-> 2 * Rand(s, 8) - D,
                                        y |-> 2 * Rand(s, 9) - D,
                                        z |-> 2 * Rand(s, 10) - D ],
                    floatSpeed |-> 2 * Rand(s, 11) + D,
                    floatAmount |-> 5 * Rand(s, 12) + 2 * D,
                    originalPosition |-> position,
                    scale |-> config.size,
                    pulseSpeed |-> 2 * Rand(s, 13) + D ] ]
        IN  Call([w EXCEPT !.rng = Advance(s, 13),
                           !.animator[id].scene = @ \cup {[kind |-> "Mesh", id |-> mesh.id]},
                           !.animator[id].objects = Append(@, mesh)],
                 "scene.add", id, mesh.id)

\* a frame update without the color shift
UpdateObject_KeepsColor(obj, index, time) ==
  LET u == obj.userData
      floatOffset == SinQ(time * u.floatSpeed + index) * u.floatAmount
      pulse == 10 + SinQ(time * u.pulseSpeed + index)
  IN  [obj EXCEPT !.rotation.x.lin = @ + u.rotationSpeed.x,
                  !.rotation.y.lin = @ + u.rotationSpeed.y,
                  !.rotation.z.lin = @ + u.rotationSpeed.z,
                  !.position.y = u.originalPosition.y + floatOffset,
                  !.scale = u.scale * pulse]

\* a frame update that moves the origin along with the object
UpdateObject_DriftsOrigin(obj, index, time) ==
  LET u == obj.userData
      floatOffset == SinQ(time * u.floatSpeed + index) * u.floatAmount
      pulse == 10 + SinQ(time * u.pulseSpeed + index)
      hue == (time + index) % 10
  IN  [obj EXCEPT !.rotation.x.lin = @ + u.rotationSpeed.x,
                  !.rotation.y.lin = @ + u.rotationSpeed.y,
                  !.rotation.z.lin = @ + u.rotationSpeed.z,
                  !.position.y = u.originalPosition.y + floatOffset,
                  !.userData.originalPosition.y = u.originalPosition.y + floatOffset,
                  !.scale = u.scale * pulse,
                  !.material.color = [space |-> "hsl", value |-> hue]]

\* a frame update that adds the float offset to the current height
UpdateObject_Accumulates(obj, index, time) ==
  LET u == obj.userData
      floatOffset == SinQ(time * u.floatSpeed + index) * u.floatAmount
      pulse == 10 + SinQ(time * u.pulseSpeed + index)
      hue == (time + index) % 10
  IN  [obj EXCEPT !.rotation.x.lin = @ + u.rotationSpeed.x,
                  !.rotation.y.lin = @ + u.rotationSpeed.y,
                  !.rotation.z.lin = @ + u.rotationSpeed.z,
                  !.position.y = @ + floatOffset,
                  !.scale = u.scale * pulse,
                  !.material.color = [space |-> "hsl", value |-> hue]]

\* the body of the forEach in animate(): index is the 0-based array index
UpdateObject(obj, index, time) ==
  LET u == obj.userData
      floatOffset == SinQ(time * u.floatSpeed + index) * u.floatAmount
      pulse == 10 + SinQ(time * u.pulseSpeed + index)
      hue == (time + index) % 10
  IN  [obj EXCEPT !.rotation.x.lin = @ + u.rotationSpeed.x,
                  !.rotation.y.lin = @ + u.rotationSpeed.y,
                  !.rotation.z.lin = @ + u.rotationSpeed.z,
                  !.position.y = u.originalPosition.y + floatOffset,
                  !.scale = u.scale * pulse,
                  !.material.color = [space |-> "hsl", value |-> hue]]

\* animate() without the isPlaying test on entry
animate_NoGuard(w, id, time) ==
  LET this == w.animator[id]
      h == w.rafNext
      n == Len(this.objects)
      w1 == Call([w EXCEPT !.rafNext = h + 1,
                           !.rafPending = @ \cup {[handle |-> h, id |-> id]},
                           !.animator[id].animationId = h],
                 "requestAnimationFrame", id, h)
      w2 == [w1 EXCEPT
               !.animator[id].objects =
                  [i \in 1..n |-> UpdateObject(this.objects[i], i - 1, time)],
               !.animator[id].camera.position.x = SinQ(2 * time) * 5,
               !.animator[id].camera.position.y = CosQ(3 * time) * 3,
               !.calls = @ \o [i \in 1..n |->
                                 [fn |-> "color.setHSL", id |-> id, arg |-> this.objects[i].id]]]
  IN  Call(Call(w2, "camera.lookAt", id, 0), "renderer.render", id, 0)

\* animate() that requests the next frame after presenting this one
animate_RequestLast(w, id, time) ==
  LET this == w.animator[id] IN
  IF ~this.isPlaying THEN w
  ELSE
    LET h == w.rafNext
        n == Len(this.objects)
        w1 == [w EXCEPT
                 !.animator[id].objects =
                    [i \in 1..n |-> UpdateObject(this.objects[i], i - 1, time)],
                 !.animator[id].camera.position.x = SinQ(2 * time) * 5,
                 !.animator[id].camera.position.y = CosQ(3 * time) * 3,
                 !.calls = @ \o [i \in 1..n |->
                                   [fn |-> "color.setHSL", id |-> id, arg |-> this.objects[i].id]]]
        w2 == Call(Call(w1, "camera.lookAt", id, 0), "renderer.render", id, 0)
    IN  Call([w2 EXCEPT !.rafNext = h + 1,
                        !.rafPending = @ \cup {[handle |-> h, id |-> id]},
                        !.animator[id].animationId = h],
             "requestAnimationFrame", id, h)

animate(w, id, time) ==
  LET this == w.animator[id] IN
  IF ~this.isPlaying THEN w
  ELSE
    LET h == w.rafNext
        n == Len(this.objects)
        w1 == Call([w EXCEPT !.rafNext = h + 1,
                             !.rafPending = @ \cup {[handle |-> h, id |-> id]},
                             !.animator[id].animationId = h],
                   "requestAnimationFrame", id, h)
        w2 == [w1 EXCEPT
                 !.animator[id].objects =
                    [i \in 1..n |-> UpdateObject(this.objects[i], i - 1, time)],
                 !.animator[id].camera.position.x = SinQ(2 * time) * 5,
                 !.animator[id].camera.position.y = CosQ(3 * time) * 3,
                 !.calls = @ \o [i \in 1..n |->
                                   [fn |-> "color.setHSL", id |-> id, arg |-> this.objects[i].id]]]
    IN  Call(Call(w2, "camera.lookAt", id, 0), "renderer.render", id, 0)

\* handleResize(): the guard tests canvas, camera and renderer, none of which
\* is ever cleared on an animator that was constructed with a canvas
handleResize(w, id) ==
  IF id \notin DOMAIN w.animator THEN w
  ELSE
    LET width == w.clientSize.width
        height == w.clientSize.height
        w1 == Call([w EXCEPT !.animator[id].camera.aspect = Ratio(width, height),
                             !.animator[id].camera.projection = Ratio(width, height)],
                   "camera.updateProjectionMatrix", id, 0)
    IN  Call([w1 EXCEPT !.animator[id].renderer.size = [width |-> width, height |-> height]],
             "renderer.setSize", id, 0)

\* play() without the isPlaying test
play_Unconditional(w, id, time) ==
  animate([w EXCEPT !.animator[id].isPlaying = TRUE], id, time)

\* play() that sets the flag and does not restart the loop
play_SetsFlagOnly(w, id, time) ==
  [w EXCEPT !.animator[id].isPlaying = TRUE]

play(w, id, time) ==
  IF ~w.animator[id].isPlaying
  THEN animate([w EXCEPT !.animator[id].isPlaying = TRUE], id, time)
  ELSE w

\* pause() without cancelAnimationFrame
pause_KeepsRequest(w, id) ==
  [w EXCEPT !.animator[id].isPlaying = FALSE]

pause(w, id) ==
  LET aid == w.animator[id].animationId
      w1 == [w EXCEPT !.animator[id].isPlaying = FALSE]
  IN  IF aid # 0
      THEN Call([w1 EXCEPT !.rafPending = {p \in @ : p.handle # aid}],
                "cancelAnimationFrame", id, aid)
      ELSE w1

\* the calls of the forEach in dispose(): three per owned object
Cleanup(id, objs) ==
  [k \in 1..(3 * Len(objs)) |->
     [ fn |-> CASE k % 3 = 1 -> "geometry.dispose"
                [] k % 3 = 2 -> "material.dispose"
                [] OTHER -> "scene.remove",
       id |-> id,
       arg |-> objs[(k + 2) \div 3].id ]]

Meshes(objs) == {[kind |-> "Mesh", id |-> objs[i].id] : i \in 1..Len(objs)}

\* dispose() without the final this.objects = []
dispose_KeepsObjects(w, id) ==
  LET w1 == pause(w, id)
      objs == w1.animator[id].objects
  IN  Call([w1 EXCEPT !.calls = @ \o Cleanup(id, objs),
                      !.animator[id].scene = @ \ Meshes(objs),
                      !.animator[id].renderer.disposals = @ + 1],
           "renderer.dispose", id, 0)

\* dispose() without the leading this.pause()
dispose_NoPause(w, id) ==
  LET objs == w.animator[id].objects
      w1 == Call([w EXCEPT !.calls = @ \o Cleanup(id, objs),
                           !.animator[id].scene = @ \ Meshes(objs),
                           !.animator[id].renderer.disposals = @ + 1],
                 "renderer.dispose", id, 0)
  IN  [w1 EXCEPT !.animator[id].objects = <<>>]

dispose(w, id) ==
  LET w1 == pause(w, id)
      objs == w1.animator[id].objects
      w2 == [w1 EXCEPT !.calls = @ \o Cleanup(id, objs),
                       !.animator[id].scene = @ \ Meshes(objs)]
      w3 == Call([w2 EXCEPT !.animator[id].renderer.disposals = @ + 1],
                 "renderer.dispose", id, 0)
  IN  [w3 EXCEPT !.animator[id].objects = <<>>]

\* the fields the constructor sets, after setupScene()
NewAnimator(canvasId, color1, color2) ==
  [ canvas |-> canvasId,
    scene |-> Lights,
    camera |-> [ position |-> [x |-> 0, y |-> 0, z |-> 50],
                 aspect |-> Ratio(clientSize.width, clientSize.height),
                 projection |-> Ratio(clientSize.width, clientSize.height) ],
    renderer |-> [disposals |-> 0, size |-> clientSize],
    color1 |-> color1,
    color2 |-> color2,
    objects |-> <<>>,
    animationId |-> 0,
    isPlaying |-> TRUE ]

\* setupEventListeners()
setupEventListeners(w, canvasId) ==
  Call(Call(Call(w, "ResizeObserver.observe", canvasId, 0),
            "addEventListener.visibilitychange", canvasId, 0),
       "IntersectionObserver.observe", canvasId, 0)

\* a constructor that skips a missing canvas without console.warn
ThreeJSAnimator_NoWarn(w, canvasId, color1, color2, time) ==
  IF canvasId \notin canvases
  THEN w
  ELSE animate(setupEventListeners(
                 [w EXCEPT !.animator = (canvasId :> NewAnimator(canvasId, color1, color2)) @@ @],
                 canvasId),
               canvasId, time)

\* a constructor that leaves the animator paused until told to play
ThreeJSAnimator_CreatedPaused(w, canvasId, color1, color2, time) ==
  IF canvasId \notin canvases
  THEN [w EXCEPT !.console = Append(@, [level |-> "warn", id |-> canvasId])]
  ELSE setupEventListeners(
         [w EXCEPT !.animator =
            (canvasId :> [NewAnimator(canvasId, color1, color2) EXCEPT !.isPlaying = FALSE]) @@ @],
         canvasId)

\* constructor(canvasId, color1, color2): returns early, leaving an object
\* without scene, when the canvas is missing
ThreeJSAnimator(w, canvasId, color1, color2, time) ==
  IF canvasId \notin canvases
  THEN [w EXCEPT !.console = Append(@, [level |-> "warn", id |-> canvasId])]
  ELSE animate(setupEventListeners(
                 [w EXCEPT !.animator = (canvasId :> NewAnimator(canvasId, color1, color2)) @@ @],
                 canvasId),
               canvasId, time)

\* addRandomObjects() that draws from the five kinds of the hero scene
RECURSIVE addRandomObjects_FiveTypes(_, _, _)
addRandomObjects_FiveTypes(w, id, count) ==
  IF count = 0 \/ w.thrown THEN w
  ELSE
    LET s == w.rng
        type == heroTypes[(Rand(s, 1) * Len(heroTypes)) \div RandDen + 1]
        size == 5 * (Rand(s, 2) + RandDen)
    IN  addRandomObjects_FiveTypes(
          createFloatingGeometry([w EXCEPT !.rng = Advance(s, 2)], id, type, [size |-> size]),
          id, count - 1)

RECURSIVE addRandomObjects(_, _, _)
addRandomObjects(w, id, count) ==
  IF count = 0 \/ w.thrown THEN w
  ELSE
    LET s == w.rng
        type == randomTypes[(Rand(s, 1) * Len(randomTypes)) \div RandDen + 1]
        size == 5 * (Rand(s, 2) + RandDen)
    IN  addRandomObjects(
          createFloatingGeometry([w EXCEPT !.rng = Advance(s, 2)], id, type, [size |-> size]),
          id, count - 1)

\* ------------------------------------------------------------ HeroAnimator
RECURSIVE createHeroObjects(_, _)
createHeroObjects(w, count) ==
  IF count = 0 \/ w.thrown THEN w
  ELSE
    LET s == w.rng
        type == heroTypes[(Rand(s, 1) * Len(heroTypes)) \div RandDen + 1]
        size == 8 * Rand(s, 2) + 4 * RandDen
    IN  createHeroObjects(
          createFloatingGeometry([w EXCEPT !.rng = Advance(s, 2)], HeroId, type, [size |-> size]),
          count - 1)

RECURSIVE createFocalObjects(_, _)
createFocalObjects(w, count) ==
  IF count = 0 \/ w.thrown THEN w
  ELSE
    LET s == w.rng
        size == 15 * Rand(s, 1) + 10 * RandDen
    IN  createFocalObjects(
          createFloatingGeometry([w EXCEPT !.rng = Advance(s, 1)], HeroId, "icosahedron",
                                 [size |-> size]),
          count - 1)

\* createHeroScene() without the loop of focal objects
createHeroScene_NoFocal(w) == createHeroObjects(w, HeroObjects)

createHeroScene(w) == createFocalObjects(createHeroObjects(w, HeroObjects), FocalObjects)

HeroAnimator(w, time) == createHeroScene(ThreeJSAnimator(w, HeroId, 65535, 16711935, time))

\* -------------------------------------------------------- AnimationManager
\* animators.forEach(animator => animator.pause()) and its two siblings
RECURSIVE pauseEach(_, _)
pauseEach(w, ids) ==
  IF ids = <<>> THEN w ELSE pauseEach(pause(w, Head(ids)), Tail(ids))

\* playAll() that restarts every constructed animator, registered or not
RECURSIVE playEach_Constructed(_, _, _)
playEach_Constructed(w, ids, time) ==
  LET paused == {id \in DOMAIN w.animator : ~w.animator[id].isPlaying}
  IN  IF paused = {} THEN w
      ELSE playEach_Constructed(play(w, CHOOSE id \in paused : TRUE, time), ids, time)

RECURSIVE playEach(_, _, _)
playEach(w, ids, time) ==
  IF ids = <<>> THEN w ELSE playEach(play(w, Head(ids), time), Tail(ids), time)

RECURSIVE disposeEach(_, _)
disposeEach(w, ids) ==
  IF ids = <<>> THEN w ELSE disposeEach(dispose(w, Head(ids)), Tail(ids))

\* the ResizeObserver callbacks of the given animators, one entry each
RECURSIVE resizeEach(_, _)
resizeEach(w, ids) ==
  IF ids = <<>> THEN w ELSE resizeEach(handleResize(w, Head(ids)), Tail(ids))

\* Map.set(key, value): a new key goes last, an existing key keeps its place
MapSet(keys, key) ==
  IF \E i \in 1..Len(keys) : keys[i] = key THEN keys ELSE Append(keys, key)

\* try { new HeroAnimator(); animators.set(...) } catch { console.error }
initHeroAnimation(w, time) ==
  LET w1 == HeroAnimator(w, time)
  IN  IF w1.thrown
      THEN [w1 EXCEPT !.thrown = FALSE,
                      !.console = Append(@, [level |-> "error", id |-> HeroId])]
      ELSE w1

\* the callback of one stagger timer of initCardAnimations
initCard(w, index, time) ==
  LET config == cardConfigs[index]
      w1 == ThreeJSAnimator(w, config.id, config.colors[1], config.colors[2], time)
  IN  IF config.id \in DOMAIN w1.animator
      THEN addRandomObjects(w1, config.id, CardObjects)
      ELSE w1

\* ------------------------------------------------------------ page scripts
\* navigation.js and main.js share no state with the animation module; their
\* handlers are modelled on the records menu, tooltip and header.

\* the menu as the markup delivers it: closed, with the aria-expanded
\* attribute the markup gives the toggle ("none" when it gives none); wired
\* says the toggle and the menu exist, so that setupMobileMenu adds listeners
MenuAtLoad(wired, aria) ==
  [wired |-> wired, active |-> FALSE, ariaExpanded |-> aria, overflow |-> ""]

\* openMobileMenu() that leaves the body scrollable
openMobileMenu_NoScrollLock(m) ==
  [m EXCEPT !.active = TRUE, !.ariaExpanded = "true"]

openMobileMenu(m) ==
  [m EXCEPT !.active = TRUE, !.ariaExpanded = "true", !.overflow = "hidden"]

closeMobileMenu(m) ==
  [m EXCEPT !.active = FALSE, !.ariaExpanded = "false", !.overflow = ""]

toggleMobileMenu(m) ==
  IF m.active THEN closeMobileMenu(m) ELSE openMobileMenu(m)

\* where a click can land: the toggle, a link of the menu, elsewhere in the
\* nav container, or outside it
ClickTargets == {"toggle", "link", "container", "outside"}

\* e.target.closest('.nav-container') finds an element: the toggle and the menu
\* with its links are inside the nav container
InNavContainer(target) == target \in {"toggle", "link", "container"}

\* the click listeners of setupMobileMenu in dispatch order: the listener on
\* the target, then the listener on document
onClick(m, target) ==
  LET m1 == CASE target = "toggle" -> toggleMobileMenu(m)
              [] target = "link" -> closeMobileMenu(m)
              [] OTHER -> m
  IN  IF ~InNavContainer(target) /\ m1.active THEN closeMobileMenu(m1) ELSE m1

Keys == {"Escape", "Tab", "Enter"}

\* the keydown listener of setupMobileMenu
onKeyDown(m, key) ==
  IF key = "Escape" /\ m.active THEN closeMobileMenu(m) ELSE m

\* the [data-tooltip] elements of the page; "inner" lies inside "outer"
TooltipElements == {"outer", "inner", "other"}
Parent(element) == IF element = "inner" THEN "outer" ELSE "none"

TooltipAtLoad == [hovered |-> {}, attached |-> {}, currentTooltip |-> 0]

\* document.createElement('div'): a node that is not attached
NewNode(t) ==
  CHOOSE n \in 1..(MaxTooltips + 1) :
    /\ \A x \in t.attached : x.node # n
    /\ \A k \in 1..(n - 1) : \E x \in t.attached : x.node = k

showTooltip(t, element) ==
  LET node == NewNode(t)
  IN  [t EXCEPT !.attached = @ \cup {[node |-> node, text |-> element]},
                !.currentTooltip = node]

hideTooltip(t) ==
  IF t.currentTooltip # 0
  THEN [t EXCEPT !.attached = {x \in @ : x.node # t.currentTooltip},
                 !.currentTooltip = 0]
  ELSE t

\* the scroll positions the page can be at
ScrollPositions == {0} \cup { ScrollThreshold + k - 1 : k \in 1..MaxScroll }

\* setupScrollEffects() has run at scroll position y
HeaderAtLoad(y) == [scrollY |-> y, ticking |-> FALSE, requests |-> 0, style |-> "unset"]

\* the three style properties updateHeader assigns, by the branch taken
HeaderStyle(y) == IF y > ScrollThreshold THEN "scrolled" ELSE "top"

updateHeader(h) ==
  [h EXCEPT !.style = HeaderStyle(h.scrollY), !.ticking = FALSE]

\* onScroll that requests an update for every scroll event
onScroll_NoThrottle(h) ==
  [h EXCEPT !.requests = @ + 1, !.ticking = TRUE]

onScroll(h) ==
  IF ~h.ticking
  THEN [h EXCEPT !.requests = @ + 1, !.ticking = TRUE]
  ELSE h

\* ------------------------------------------------------------------ state
Init ==
  /\ phase = "loading"
  /\ webgl \in BOOLEAN
  /\ canvases \in SUBSET Targets
  /\ hidden = FALSE
  /\ clientSize \in Sizes
  /\ rng \in 0..MaxSeed
  /\ animator = <<>>
  /\ animators = <<>>
  /\ intersecting = <<>>
  /\ rafNext = 1
  /\ rafPending = {}
  /\ startupTimer = FALSE
  /\ cardTimers = {}
  /\ console = <<>>
  /\ poolDisposed = FALSE
  /\ menu = MenuAtLoad(TRUE, "false")
  /\ tooltip = TooltipAtLoad
  /\ header = HeaderAtLoad(0)

\* the world a handler leaves behind becomes the next state; a run hands out
\* at most MaxHandle frame-request handles
Commit(w) ==
  /\ w.rafNext - 1 <= MaxHandle
  /\ animator' = w.animator
  /\ rng' = w.rng
  /\ rafNext' = w.rafNext
  /\ rafPending' = w.rafPending
  /\ console' = w.console

\* intersectionObserver.observe(canvas) of each newly constructed animator
Observed(w) ==
  [id \in DOMAIN w.animator |->
     IF id \in DOMAIN intersecting THEN intersecting[id] ELSE "none"]

\* listeners run in the order they were added: hero first, cards by index
Constructed ==
  SelectSeq(<<HeroId>> \o [i \in CardIndices |-> cardConfigs[i].id],
            LAMBDA id : id \in DOMAIN animator)

\* ---------------------------------------------------------------- actions
\* a handler that reports the missing WebGL once for every target
DOMContentLoaded_WarnsPerTarget ==
  /\ phase = "loading"
  /\ IF ~webgl
     THEN /\ phase' = "unsupported"
          /\ console' = console \o [i \in 1..(NumCards + 1) |-> [level |-> "warn", id |-> "WebGL"]]
          /\ UNCHANGED << animator, animators, intersecting, rng, rafNext, rafPending,
                          startupTimer >>
     ELSE \E time \in Times :
            LET w == Call(initHeroAnimation(World, time), "setTimeout", "", StartupDelay)
            IN  /\ Commit(w)
                /\ phase' = "ready"
                /\ animators' = IF HeroId \in DOMAIN w.animator
                                THEN MapSet(animators, HeroId) ELSE animators
                /\ intersecting' = Observed(w)
                /\ startupTimer' = TRUE
  /\ UNCHANGED << webgl, canvases, menu, tooltip, header, clientSize, hidden, cardTimers, poolDisposed >>

\* the DOMContentLoaded handler: WebGL check, new AnimationManager(), init()
DOMContentLoaded ==
  /\ phase = "loading"
  /\ IF ~webgl
     THEN /\ phase' = "unsupported"
          /\ console' = Append(console, [level |-> "warn", id |-> "WebGL"])
          /\ UNCHANGED << animator, animators, intersecting, rng, rafNext, rafPending,
                          startupTimer >>
     ELSE \E time \in Times :
            LET w == Call(initHeroAnimation(World, time), "setTimeout", "", StartupDelay)
            IN  /\ Commit(w)
                /\ phase' = "ready"
                /\ animators' = IF HeroId \in DOMAIN w.animator
                                THEN MapSet(animators, HeroId) ELSE animators
                /\ intersecting' = Observed(w)
                /\ startupTimer' = TRUE
  /\ UNCHANGED << webgl, canvases, menu, tooltip, header, clientSize, hidden, cardTimers, poolDisposed >>

\* the 500 ms timer of init(): initCardAnimations() arms one timer per config
StartupTimer ==
  /\ startupTimer
  /\ startupTimer' = FALSE
  /\ cardTimers' = CardIndices
  /\ UNCHANGED << phase, webgl, canvases, menu, tooltip, header, clientSize, hidden, rng, animator, animators, intersecting,
                  rafNext, rafPending, console, poolDisposed >>

\* stagger timers that fire longest delay first
CardTimer_ReverseOrder ==
  /\ cardTimers # {}
  /\ LET index == CHOOSE i \in cardTimers : \A j \in cardTimers : i >= j
         id == cardConfigs[index].id
     IN  \E time \in Times :
           LET w == initCard(World, index, time)
           IN  /\ Commit(w)
               /\ cardTimers' = cardTimers \ {index}
               /\ animators' = IF id \in DOMAIN w.animator
                               THEN MapSet(animators, id) ELSE animators
               /\ intersecting' = Observed(w)
  /\ UNCHANGED << phase, webgl, canvases, menu, tooltip, header, clientSize, hidden, startupTimer, poolDisposed >>

\* the stagger timer with the shortest delay fires
CardTimer ==
  /\ cardTimers # {}
  /\ LET index == CHOOSE i \in cardTimers : \A j \in cardTimers : i <= j
         id == cardConfigs[index].id
     IN  \E time \in Times :
           LET w == initCard(World, index, time)
           IN  /\ Commit(w)
               /\ cardTimers' = cardTimers \ {index}
               /\ animators' = IF id \in DOMAIN w.animator
                               THEN MapSet(animators, id) ELSE animators
               /\ intersecting' = Observed(w)
  /\ UNCHANGED << phase, webgl, canvases, menu, tooltip, header, clientSize, hidden, startupTimer, poolDisposed >>

\* the host runs one requested frame callback: () => this.animate(); a hidden
\* document has no rendering opportunities, so no callback runs while hidden
FrameCallback ==
  \E p \in rafPending, time \in Times :
    /\ ~hidden
    /\ Commit(animate([World EXCEPT !.rafPending = @ \ {p}], p.id, time))
    /\ UNCHANGED << phase, webgl, canvases, menu, tooltip, header, clientSize, hidden, animators, intersecting,
                    startupTimer, cardTimers, poolDisposed >>

\* document visibilitychange: every constructed animator has a listener
VisibilityChange ==
  /\ hidden' = ~hidden
  /\ \E time \in Times :
       Commit(IF hidden' THEN pauseEach(World, Constructed)
              ELSE playEach(World, Constructed, time))
  /\ UNCHANGED << phase, webgl, canvases, menu, tooltip, header, clientSize, animators, intersecting,
                  startupTimer, cardTimers, poolDisposed >>

\* the IntersectionObserver of one animator reports a crossing of the threshold
\* (the first report follows observe()); reports are made when the document is
\* rendered, so none arrives while it is hidden
Intersection ==
  \E id \in DOMAIN animator, v \in {"yes", "no"}, time \in Times :
    /\ ~hidden
    /\ intersecting[id] # v
    /\ intersecting' = [intersecting EXCEPT ![id] = v]
    /\ Commit(IF v = "yes" THEN play(World, id, time) ELSE pause(World, id))
    /\ UNCHANGED << phase, webgl, canvases, menu, tooltip, header, clientSize, hidden, animators,
                    startupTimer, cardTimers, poolDisposed >>

\* the layout changes the size of the canvases (or a ResizeObserver delivers
\* its first report, with the size unchanged): the observer of every constructed
\* animator calls handleResize(); reports are made when the document is rendered
Resize ==
  /\ ~hidden
  /\ animator # <<>>
  /\ clientSize' \in Sizes
  /\ Commit(resizeEach([World EXCEPT !.clientSize = clientSize'], Constructed))
  /\ UNCHANGED << phase, webgl, canvases, menu, tooltip, header, hidden, animators, intersecting,
                  startupTimer, cardTimers, poolDisposed >>

\* direct calls of the public methods of one animator
Play ==
  \E id \in DOMAIN animator, time \in Times :
    /\ Commit(play(World, id, time))
    /\ UNCHANGED << phase, webgl, canvases, menu, tooltip, header, clientSize, hidden, animators, intersecting,
                    startupTimer, cardTimers, poolDisposed >>

Pause ==
  \E id \in DOMAIN animator :
    /\ Commit(pause(World, id))
    /\ UNCHANGED << phase, webgl, canvases, menu, tooltip, header, clientSize, hidden, animators, intersecting,
                    startupTimer, cardTimers, poolDisposed >>

Dispose ==
  \E id \in DOMAIN animator :
    /\ animator[id].renderer.disposals < MaxDisposals
    /\ Commit(dispose(World, id))
    /\ UNCHANGED << phase, webgl, canvases, menu, tooltip, header, clientSize, hidden, animators, intersecting,
                    startupTimer, cardTimers, poolDisposed >>

\* the public methods of the manager (window.animationManager)
PauseAll ==
  /\ phase = "ready"
  /\ Commit(pauseEach(World, animators))
  /\ UNCHANGED << phase, webgl, canvases, menu, tooltip, header, clientSize, hidden, animators, intersecting,
                  startupTimer, cardTimers, poolDisposed >>

PlayAll ==
  /\ phase = "ready"
  /\ \E time \in Times : Commit(playEach(World, animators, time))
  /\ UNCHANGED << phase, webgl, canvases, menu, tooltip, header, clientSize, hidden, animators, intersecting,
                  startupTimer, cardTimers, poolDisposed >>

\* AnimationManager.dispose(), also the beforeunload handler
ManagerDispose ==
  /\ phase = "ready"
  /\ \A i \in 1..Len(animators) : animator[animators[i]].renderer.disposals < MaxDisposals
  /\ Commit(disposeEach(World, animators))
  /\ animators' = <<>>
  /\ poolDisposed' = TRUE
  /\ UNCHANGED << phase, webgl, canvases, menu, tooltip, header, clientSize, hidden, intersecting, startupTimer, cardTimers >>

Next ==
  \/ DOMContentLoaded
  \/ StartupTimer
  \/ CardTimer
  \/ FrameCallback
  \/ VisibilityChange
  \/ Intersection
  \/ Resize
  \/ Play
  \/ Pause
  \/ Dispose
  \/ PauseAll
  \/ PlayAll
  \/ ManagerDispose

Spec == Init /\ [][Next]_vars

\* the same page script on a page that has exactly one of the canvases: one
\* animator is ever constructed, the hero or one card
InitOne == Init /\ Cardinality(canvases) = 1

SpecOne == InitOne /\ [][Next]_vars

\* startup alone: init(), its timers and the pool's dispose()
NextStartup == DOMContentLoaded \/ StartupTimer \/ CardTimer \/ ManagerDispose

\* an armed stagger timer leaves the timer queue: the steps of NextStartup that
\* do this are the CardTimer steps, and with at most NumCards + 1 animators
\* constructed CardTimer is enabled whenever a timer is armed
CardTimerFires ==
  /\ cardTimers # {}
  /\ \E index \in cardTimers : cardTimers' = cardTimers \ {index}

\* the host fires every armed timer
SpecStartup ==
  Init /\ [][NextStartup]_vars /\ WF_vars(StartupTimer) /\ WF_cardTimers(CardTimerFires)

\* the host runs a requested frame callback at the next rendering opportunity
SpecOneLive == InitOne /\ [][Next]_vars /\ WF_vars(FrameCallback)

\* the construction of the animators alone, on a page with one canvas, from
\* every state of the generator: the handler and the timers build the scenes
\* with createFloatingGeometry and addRandomObjects
InitFactory ==
  /\ phase = "loading"
  /\ webgl \in BOOLEAN
  /\ canvases \in { {id} : id \in Targets }
  /\ hidden = FALSE
  /\ clientSize \in Sizes
  /\ rng \in Seeds
  /\ animator = <<>>
  /\ animators = <<>>
  /\ intersecting = <<>>
  /\ rafNext = 1
  /\ rafPending = {}
  /\ startupTimer = FALSE
  /\ cardTimers = {}
  /\ console = <<>>
  /\ poolDisposed = FALSE
  /\ menu = MenuAtLoad(TRUE, "false")
  /\ tooltip = TooltipAtLoad
  /\ header = HeaderAtLoad(0)

NextFactory ==
  \/ DOMContentLoaded
  \/ StartupTimer
  \/ CardTimer

SpecFactory == InitFactory /\ [][NextFactory]_vars

\* ------------------------------------------------------- page script steps
animationVars == << phase, webgl, canvases, hidden, clientSize, rng, animator, animators,
                    intersecting, rafNext, rafPending, startupTimer, cardTimers, console,
                    poolDisposed >>

\* a click somewhere in the document; the toggle and the links can be clicked
\* when they exist
Click ==
  \E target \in ClickTargets :
    /\ target \in {"toggle", "link"} => menu.wired
    /\ menu' = IF menu.wired THEN onClick(menu, target) ELSE menu
    /\ UNCHANGED << animationVars, tooltip, header >>

KeyDown ==
  \E key \in Keys :
    /\ menu' = IF menu.wired THEN onKeyDown(menu, key) ELSE menu
    /\ UNCHANGED << animationVars, tooltip, header >>

\* the pointer enters a [data-tooltip] element: it was over the element's
\* parent, or over none when the element has no [data-tooltip] ancestor
MouseEnter ==
  \E element \in TooltipElements \ tooltip.hovered :
    /\ tooltip.hovered = IF Parent(element) = "none" THEN {} ELSE {Parent(element)}
    /\ Cardinality(tooltip.attached) < MaxTooltips
    /\ tooltip' = showTooltip([tooltip EXCEPT !.hovered = @ \cup {element}], element)
    /\ UNCHANGED << animationVars, menu, header >>

\* the pointer leaves the innermost [data-tooltip] element it is over
MouseLeave ==
  \E element \in tooltip.hovered :
    /\ \A other \in tooltip.hovered : Parent(other) # element
    /\ tooltip' = hideTooltip([tooltip EXCEPT !.hovered = @ \ {element}])
    /\ UNCHANGED << animationVars, menu, header >>

\* the window scrolls to another position and the scroll listener runs
Scroll ==
  \E y \in ScrollPositions \ {header.scrollY} :
    LET h == onScroll([header EXCEPT !.scrollY = y])
    IN  /\ h.requests <= MaxRequests
        /\ header' = h
        /\ UNCHANGED << animationVars, menu, tooltip >>

\* the host runs one requested updateHeader callback
HeaderFrame ==
  /\ header.requests > 0
  /\ header' = updateHeader([header EXCEPT !.requests = @ - 1])
  /\ UNCHANGED << animationVars, menu, tooltip >>

\* the page as the scripts find it on DOMContentLoaded: with or without the
\* menu elements, at any scroll position, the animation module at rest
InitPage ==
  /\ phase = "loading"
  /\ webgl = TRUE
  /\ canvases = Targets
  /\ hidden = FALSE
  /\ clientSize \in {s \in Sizes : s.width = 1}
  /\ rng = 0
  /\ animator = <<>>
  /\ animators = <<>>
  /\ intersecting = <<>>
  /\ rafNext = 1
  /\ rafPending = {}
  /\ startupTimer = FALSE
  /\ cardTimers = {}
  /\ console = <<>>
  /\ poolDisposed = FALSE
  /\ menu \in { MenuAtLoad(wired, aria) : wired \in BOOLEAN, aria \in {"none", "false"} }
  /\ tooltip = TooltipAtLoad
  /\ header \in { HeaderAtLoad(y) : y \in ScrollPositions }

NextPage == Click \/ KeyDown \/ MouseEnter \/ MouseLeave \/ Scroll \/ HeaderFrame

\* the host runs a requested updateHeader callback at the next frame
SpecPage == InitPage /\ [][NextPage]_vars /\ WF_vars(HeaderFrame)

\* ------------------------------------------------------------ vocabulary
\* the outstanding frame requests of one animator
Pending(id) == {p \in rafPending : p.id = id}
PendingIn(w, id) == {p \in w.rafPending : p.id = id}

\* an animator on which dispose() has not run
Live(id) == animator[id].renderer.disposals = 0

Registered == {animators[i] : i \in 1..Len(animators)}

\* init() has run and so has every timer it armed
AllTimersRun == phase = "ready" /\ ~startupTimer /\ cardTimers = {}

Transform(obj) == [position |-> obj.position, rotation |-> obj.rotation, scale |-> obj.scale]

\* the two colors a material of the animator is created with
Palette(id) ==
  { [space |-> "hex", value |-> animator[id].color1],
    [space |-> "hex", value |-> animator[id].color2] }

\* the geometry class createFloatingGeometry builds for a kind
ClassOf(type) == Geometry(type, defaults).class

SixClasses == { ClassOf(randomTypes[k]) : k \in 1..Len(randomTypes) }

\* ------------------------------------------------------------------ C1
\* C1: after a visibilitychange or intersection event is delivered to a live
\* animator (and its canvas has reported at least once), the animator is
\* playing if and only if the document is not hidden and the canvas intersects.
C1_RunningIffBothVisible ==
  [][ \A id \in DOMAIN animator :
        ( /\ hidden' # hidden \/ intersecting'[id] # intersecting[id]
          /\ animator'[id].renderer.disposals = 0
          /\ intersecting'[id] # "none" )
        => ( animator'[id].isPlaying <=> (~hidden' /\ intersecting'[id] = "yes") ) ]_vars

\* ------------------------------------------------------------------ C2
\* C2: once AnimationManager.dispose() has been invoked the registry stays
\* empty: no stagger timer that was still pending registers an animator later.
C2_NoCreationAfterDispose == poolDisposed => animators = <<>>

\* ------------------------------------------------------------------ C3
\* C3 (as stated): on a playing animator pause() followed at once by play()
\* leaves the transform of every owned object as it was, and the animator
\* playing with a frame request outstanding.
C3_PausePlayKeepsTransforms ==
  \A id \in DOMAIN animator, time \in Times :
    animator[id].isPlaying =>
      LET w == play(pause(World, id), id, time)
          old == animator[id].objects
          new == w.animator[id].objects
      IN  /\ Len(new) = Len(old)
          /\ \A i \in 1..Len(old) : Transform(new[i]) = Transform(old[i])
          /\ w.animator[id].isPlaying
          /\ Cardinality(PendingIn(w, id)) = 1

\* C3 (amended): on a playing animator pause() followed at once by play()
\* resets nothing and leaves the animator playing with exactly one frame request
\* outstanding, the one it holds; play() runs one frame update, so that each
\* owned object's rotation advances by one step of its rotationSpeed and its y
\* and scale are recomputed from its origin and base size, while its x, z,
\* geometry and animation profile stay as they were.
C3_PausePlayAdvancesOneFrame ==
  \A id \in DOMAIN animator, time \in Times :
    animator[id].isPlaying =>
      LET w == play(pause(World, id), id, time)
          old == animator[id].objects
          new == w.animator[id].objects
      IN  /\ Len(new) = Len(old)
          /\ \A i \in 1..Len(old) :
               LET u == old[i].userData IN
               /\ new[i].userData = u
               /\ new[i].geometry = old[i].geometry
               /\ new[i].id = old[i].id
               /\ new[i].position.x = old[i].position.x
               /\ new[i].position.z = old[i].position.z
               /\ new[i].rotation.x = [old[i].rotation.x EXCEPT !.lin = @ + u.rotationSpeed.x]
               /\ new[i].rotation.y = [old[i].rotation.y EXCEPT !.lin = @ + u.rotationSpeed.y]
               /\ new[i].rotation.z = [old[i].rotation.z EXCEPT !.lin = @ + u.rotationSpeed.z]
               /\ new[i].position.y - u.originalPosition.y
                    \in {-u.floatAmount, 0, u.floatAmount}
               /\ new[i].scale \in {9 * u.scale, 10 * u.scale, 11 * u.scale}
          /\ w.animator[id].isPlaying
          /\ PendingIn(w, id) = {[handle |-> w.animator[id].animationId, id |-> id]}
          /\ w.animator[id].animationId # animator[id].animationId

\* a playing animator owning an object that turns about x, on which
\* pause(); play() moves that object and leaves one request outstanding
C3_Witness ==
  \E id \in DOMAIN animator, time \in Times :
    /\ animator[id].isPlaying
    /\ Live(id)
    /\ Pending(id) # {}
    /\ LET w == play(pause(World, id), id, time) IN
       \E i \in 1..Len(animator[id].objects) :
         /\ animator[id].objects[i].userData.rotationSpeed.x # 0
         /\ Transform(w.animator[id].objects[i]) # Transform(animator[id].objects[i])
         /\ Cardinality(PendingIn(w, id)) = 1

\* ------------------------------------------------------------------ C4
\* C4: every animator has at most one outstanding frame request, and none
\* while isPlaying is false.
C4_AtMostOneFrameRequest ==
  \A id \in DOMAIN animator :
    /\ Cardinality(Pending(id)) <= 1
    /\ ~animator[id].isPlaying => Pending(id) = {}

\* an animator that was paused and restarted and is paused again: it has
\* requested three frames, is not playing and has no request outstanding
C4_Witness ==
  \E id \in DOMAIN animator :
    /\ ~animator[id].isPlaying
    /\ animator[id].animationId >= 3
    /\ Pending(id) = {}
    /\ Live(id)

\* ------------------------------------------------------------------ C5
\* C5: dispose() is idempotent: a call after the first releases nothing, so
\* the renderer of an animator is never released more than once.
C5_SecondDisposeReleasesNothing ==
  \A id \in DOMAIN animator : animator[id].renderer.disposals <= 1

\* ------------------------------------------------------------------ C6
\* C6: once init() and all its timers have run (and the pool has not been
\* disposed) the registry holds exactly the targets whose canvas exists, every
\* target without a canvas has been reported on the console and no other has.
C6_MissingTargetsSkipped ==
  (AllTimersRun /\ ~poolDisposed) =>
    /\ Registered = canvases
    /\ Len(animators) = Cardinality(canvases)
    /\ {console[i].id : i \in 1..Len(console)} = Targets \ canvases
    /\ \A id \in Registered : animator[id].canvas = id

\* every timer has run on a page where the hero canvas and one card canvas are
\* missing and the remaining card has been registered
C6_Witness ==
  /\ AllTimersRun
  /\ ~poolDisposed
  /\ HeroId \notin canvases
  /\ Cardinality(canvases) = NumCards - 1
  /\ Registered = canvases
  /\ Len(console) >= 2

\* ------------------------------------------------------------------ C7
\* C7: when the document becomes hidden, or the canvas of an animator is
\* reported as no longer intersecting, the animator is paused right after the
\* event is handled and has no outstanding frame request.
C7_NotVisiblePauses ==
  [][ \A id \in DOMAIN animator :
        ( \/ (hidden' /\ ~hidden)
          \/ (intersecting'[id] = "no" /\ intersecting[id] # "no") )
        => ( ~animator'[id].isPlaying /\ {p \in rafPending' : p.id = id} = {} ) ]_vars

\* a live animator paused with its request cancelled while its canvas is
\* reported outside the viewport and the document is in the foreground
C7_Witness ==
  \E id \in DOMAIN animator :
    /\ Live(id)
    /\ intersecting[id] = "no"
    /\ ~hidden
    /\ ~animator[id].isPlaying
    /\ animator[id].animationId # 0
    /\ Pending(id) = {}
    /\ rafPending = {}

\* ------------------------------------------------------------------ C8
\* C8: pauseAll() and playAll() set the play state of every registered
\* animator and leave every other animator as it is; an animator constructed
\* by a later stagger timer starts playing with a frame request outstanding,
\* also when pauseAll() ran just before its timer.
C8_BulkOpsTouchRegisteredOnly ==
  [][ /\ \A id \in DOMAIN animator' \ DOMAIN animator :
           /\ animator'[id].isPlaying
           /\ {p \in rafPending' : p.id = id}
                = {[handle |-> animator'[id].animationId, id |-> id]}
      /\ PlayAll =>
           /\ DOMAIN animator' = DOMAIN animator
           /\ animators' = animators
           /\ \A id \in DOMAIN animator :
                IF id \in Registered THEN animator'[id].isPlaying
                ELSE animator'[id] = animator[id]
      /\ PauseAll =>
           /\ DOMAIN animator' = DOMAIN animator
           /\ animators' = animators
           /\ \A id \in DOMAIN animator :
                IF id \in Registered THEN ~animator'[id].isPlaying
                ELSE animator'[id] = animator[id]
           \* the stagger timer that fires next, right after this pauseAll()
           /\ \A time \in Times :
                cardTimers # {} =>
                  LET index == CHOOSE i \in cardTimers : \A j \in cardTimers : i <= j
                      id == cardConfigs[index].id
                      w == initCard(pauseEach(World, animators), index, time)
                  IN  id \in canvases =>
                        /\ w.animator[id].isPlaying
                        /\ PendingIn(w, id) = {[handle |-> w.animator[id].animationId, id |-> id]}
                        /\ \A r \in Registered : ~w.animator[r].isPlaying
    ]_vars

\* a card registered and playing, with its first request outstanding, next to
\* a registered hero that is paused although the document is in the foreground
\* and its canvas was never reported outside the viewport
C8_Witness ==
  /\ ~hidden
  /\ ~poolDisposed
  /\ HeroId \in Registered
  /\ ~animator[HeroId].isPlaying
  /\ intersecting[HeroId] = "none"
  /\ Live(HeroId)
  /\ \E id \in Registered \ {HeroId} :
       /\ animator[id].isPlaying
       /\ animator[id].animationId > animator[HeroId].animationId
       /\ Len(animator[id].objects) = CardObjects
       /\ Cardinality(Pending(id)) = 1

\* ------------------------------------------------------------------ C9
\* C9: right after AnimationManager.dispose() the registry is empty and every
\* animator that was registered is paused, has no outstanding frame request
\* and owns no object.
C9_DisposeAllEmptiesRegistry ==
  [][ ManagerDispose =>
        /\ animators' = <<>>
        /\ \A id \in Registered :
             /\ ~animator'[id].isPlaying
             /\ {p \in rafPending' : p.id = id} = {}
             /\ animator'[id].objects = <<>>
             /\ animator'[id].renderer.disposals = animator[id].renderer.disposals + 1 ]_vars

\* the pool has been disposed with the hero and a card registered: both are
\* paused, released and empty, and the registry is empty
C9_Witness ==
  /\ poolDisposed
  /\ animators = <<>>
  /\ rafPending = {}
  /\ Cardinality(DOMAIN animator) >= 2
  /\ \A id \in DOMAIN animator :
       /\ ~animator[id].isPlaying
       /\ animator[id].objects = <<>>
       /\ animator[id].renderer.disposals = 1
       /\ animator[id].animationId # 0

\* ----------------------------------------------------------------- C10
\* C10: dispose() first pauses (isPlaying false, the pending request
\* cancelled before anything is released), then releases geometry and material
\* of every owned object and removes it from the scene, then releases the
\* renderer, and leaves objects empty; it runs no frame update in between.
C10_DisposePausesThenReleases ==
  \A id \in DOMAIN animator :
    LET w == dispose(World, id)
        c == w.calls
        objs == animator[id].objects
        At(fn, arg) == {k \in 1..Len(c) : c[k].fn = fn /\ c[k].arg = arg /\ c[k].id = id}
        Release == {k \in 1..Len(c) :
                      c[k].fn \in {"geometry.dispose", "material.dispose", "scene.remove",
                                   "renderer.dispose"}}
    IN  /\ ~w.animator[id].isPlaying
        /\ PendingIn(w, id) = {}
        /\ Pending(id) # {} =>
             \E k \in 1..Len(c) :
               /\ c[k].fn = "cancelAnimationFrame"
               /\ [handle |-> c[k].arg, id |-> id] \in Pending(id)
               /\ \A r \in Release : k < r
        /\ \A i \in 1..Len(objs) :
             /\ Cardinality(At("geometry.dispose", objs[i].id)) = 1
             /\ Cardinality(At("material.dispose", objs[i].id)) = 1
             /\ Cardinality(At("scene.remove", objs[i].id)) = 1
             /\ \A k \in At("geometry.dispose", objs[i].id) \cup At("material.dispose", objs[i].id)
                        \cup At("scene.remove", objs[i].id) :
                  \A r \in At("renderer.dispose", 0) : k < r
        /\ Cardinality(At("renderer.dispose", 0)) = 1
        /\ \A k \in 1..Len(c) :
             c[k].fn \notin {"requestAnimationFrame", "color.setHSL", "camera.lookAt",
                             "renderer.render"}
        /\ w.animator[id].objects = <<>>
        /\ w.animator[id].scene = Lights
        /\ w.animator[id].renderer.disposals = animator[id].renderer.disposals + 1

\* a playing animator with objects and a request outstanding that has never
\* been disposed, on which dispose() cancels that request and empties objects
C10_Witness ==
  \E id \in DOMAIN animator :
    /\ animator[id].isPlaying
    /\ Live(id)
    /\ animator[id].renderer.disposals = 0
    /\ animator[id].objects # <<>>
    /\ animator[id].scene # Lights
    /\ LET w == dispose(World, id) IN
         /\ Pending(id) \ PendingIn(w, id) # {}
         /\ w.animator[id].objects = <<>>
         /\ w.animator[id].renderer.disposals = 1

\* ----------------------------------------------------------------- C11
\* C11: a resize notification delivered to an animator after dispose() changes
\* nothing of it (camera projection, output size) and makes no call on the
\* released renderer; on any animator handleResize() called twice with the
\* size unchanged leaves the state the first call left.
C11_ResizeAfterDisposeIsNoOp ==
  [][ Resize =>
        \A id \in DOMAIN animator :
          LET w == handleResize([World EXCEPT !.clientSize = clientSize'], id)
          IN  /\ animator[id].renderer.disposals > 0 =>
                   /\ animator'[id] = animator[id]
                   /\ w.calls = <<>>
              /\ handleResize(w, id).animator = w.animator ]_vars

\* ----------------------------------------------------------------- C12
\* C12: while the registry is empty, pauseAll(), playAll() and dispose() of
\* the manager do not fail, leave the registry empty and change no animator,
\* no frame request and no console line.
C12_EmptyPoolOpsAreNoOps ==
  [][ (animators = <<>> /\ (PauseAll \/ PlayAll \/ ManagerDispose)) =>
        /\ animators' = <<>>
        /\ animator' = animator
        /\ rafPending' = rafPending
        /\ rafNext' = rafNext
        /\ console' = console
        /\ ~pauseEach(World, animators).thrown
        /\ ~disposeEach(World, animators).thrown
        /\ \A time \in Times : ~playEach(World, animators, time).thrown ]_vars

\* the manager was disposed while nothing was registered and nothing had been
\* constructed, with the stagger timers still pending
C12_Witness ==
  /\ phase = "ready"
  /\ poolDisposed
  /\ animators = <<>>
  /\ animator = <<>>
  /\ cardTimers # {}

\* ----------------------------------------------------------------- C13
\* C13 (as stated): on a live animator addRandomObjects(5) raises the object
\* count by 5, and in every reachable state, frame callbacks included, the
\* color of every owned object is one of the two palette colors.
C13_ColorsStayInPalette ==
  \A id \in DOMAIN animator :
    Live(id) =>
      /\ Len(addRandomObjects(World, id, 5).animator[id].objects)
            = Len(animator[id].objects) + 5
      /\ \A i \in 1..Len(animator[id].objects) :
            animator[id].objects[i].material.color \in Palette(id)

\* C13 (amended): on a live animator addRandomObjects(5) appends 5 objects whose
\* color is a palette color and leaves the others alone; the count is then kept
\* by every frame update; a frame update of a playing animator replaces the
\* color of every owned object by the HSL color of hue (time + index)/10, and
\* an owned object's color is always a palette color or such an HSL color.
\* (setHSL(hue, 0.7, 0.6) is never a palette color: those have saturation 1.)
C13_PaletteUntilFirstFrame ==
  \A id \in DOMAIN animator :
    Live(id) =>
      LET objs == animator[id].objects
          n == Len(objs)
          w == addRandomObjects(World, id, 5)
          new == w.animator[id].objects
      IN  /\ n = IF id = HeroId THEN HeroObjects + FocalObjects ELSE CardObjects
          /\ ~w.thrown
          /\ Len(new) = n + 5
          /\ \A i \in 1..n :
                /\ new[i] = objs[i]
                /\ objs[i].material.color \in
                     Palette(id) \cup {[space |-> "hsl", value |-> hue] : hue \in 0..9}
          /\ \A i \in (n + 1)..(n + 5) : new[i].material.color \in Palette(id)
          /\ \A time \in Times :
                LET f == animate(w, id, time).animator[id].objects
                IN  /\ Len(f) = n + 5
                    /\ \A i \in 1..(n + 5) :
                          f[i].material.color =
                            IF animator[id].isPlaying
                            THEN [space |-> "hsl", value |-> (time + i - 1) % 10]
                            ELSE new[i].material.color

\* a live playing animator whose objects have all been through a frame update
\* and carry an HSL color
C13_Witness ==
  \E id \in DOMAIN animator :
    /\ Live(id)
    /\ animator[id].isPlaying
    /\ Len(animator[id].objects) >= CardObjects
    /\ \A i \in 1..Len(animator[id].objects) :
          /\ animator[id].objects[i].material.color.space = "hsl"
          /\ animator[id].objects[i].material.color \notin Palette(id)

\* ----------------------------------------------------------------- C14
\* C14 (as stated): createFloatingGeometry() with the kind omitted appends
\* exactly one object, and each of the six kinds is a possible outcome.
C14_OmittedKindAnyOfSix ==
  \A id \in DOMAIN animator :
    \A class \in SixClasses :
      \E s \in Seeds :
        LET w == createFloatingGeometry([World EXCEPT !.rng = s], id, undefined, <<>>)
            new == w.animator[id].objects
        IN  /\ Len(new) = Len(animator[id].objects) + 1
            /\ new[Len(new)].geometry.class = class

\* C14 (amended): createFloatingGeometry() with the kind omitted appends exactly
\* one object, always a sphere; addRandomObjects(1) appends exactly one object,
\* always of one of the six kinds, and each of the six is a possible outcome.
C14_OmittedKindIsSphere ==
  \A id \in DOMAIN animator :
    LET n == Len(animator[id].objects)
        omitted == { LET objs == createFloatingGeometry([World EXCEPT !.rng = s], id,
                                                        undefined, <<>>).animator[id].objects
                     IN  [count |-> Len(objs) - n, geometry |-> objs[Len(objs)].geometry] :
                     s \in Seeds }
        random == { LET objs == addRandomObjects([World EXCEPT !.rng = s], id, 1)
                                  .animator[id].objects
                    IN  [count |-> Len(objs) - n, class |-> objs[Len(objs)].geometry.class] :
                    s \in Seeds }
    IN  /\ omitted = { [count |-> 1, geometry |-> Geometry("sphere", defaults)] }
        /\ \A a \in random : a.count = 1
        /\ { a.class : a \in random } = SixClasses

\* a card animator that addRandomObjects(3) has populated, to which
\* addRandomObjects(1) can add a tetrahedron and createFloatingGeometry() a sphere
C14_Witness ==
  \E id \in DOMAIN animator \ {HeroId} :
    /\ Len(animator[id].objects) = CardObjects
    /\ \E s \in Seeds :
         LET new == addRandomObjects([World EXCEPT !.rng = s], id, 1).animator[id].objects
         IN  new[Len(new)].geometry.class = "TetrahedronGeometry"
    /\ createFloatingGeometry(World, id, undefined, <<>>).animator[id].objects[CardObjects + 1]
          .geometry.class = "SphereGeometry"

\* ----------------------------------------------------------------- C15
\* C15: on every constructed animator createFloatingGeometry(kind, options)
\* throws nothing and appends exactly one object, for each of the six kinds and
\* for kinds it does not know; the six kinds give six different geometry
\* classes, and an unknown kind gives the geometry 'sphere' gives.
C15_OneObjectPerKind ==
  \A id \in DOMAIN animator :
    LET n == Len(animator[id].objects)
        six == { randomTypes[k] : k \in 1..Len(randomTypes) }
        options == << <<>>, [size |-> 5 * RandDen] >>
        made == { LET w == createFloatingGeometry(World, id, type, options[o])
                      objs == w.animator[id].objects
                  IN  [ type |-> type, o |-> o,
                        thrown |-> w.thrown,
                        count |-> Len(objs) - n,
                        kept |-> SubSeq(objs, 1, n) = animator[id].objects,
                        added |-> w.animator[id].scene \ animator[id].scene,
                        geometry |-> objs[Len(objs)].geometry ] :
                  type \in six \cup unknownTypes, o \in 1..Len(options) }
    IN  /\ \A m \in made :
              /\ ~m.thrown
              /\ m.count = 1
              /\ m.kept
              /\ m.added = {[kind |-> "Mesh", id |-> n + 1]}
        /\ \A m1 \in made, m2 \in made :
              (m1.type \in six /\ m2.type \in six /\ m1.type # m2.type)
                => m1.geometry.class # m2.geometry.class
        /\ \A m1 \in made, m2 \in made :
              (m1.type \in unknownTypes /\ m2.type = "sphere" /\ m1.o = m2.o)
                => m1.geometry = m2.geometry

\* an animator that createFloatingGeometry has given objects of two different
\* geometry classes, on which an unknown kind adds a sphere
C15_Witness ==
  \E id \in DOMAIN animator :
    LET objs == animator[id].objects IN
    /\ \E i \in 1..Len(objs), j \in 1..Len(objs) :
          objs[i].geometry.class # objs[j].geometry.class
    /\ createFloatingGeometry(World, id, "dodecahedron", <<>>)
          .animator[id].objects[Len(objs) + 1].geometry.class = "SphereGeometry"

\* ----------------------------------------------------------------- C16
\* C16: play() on a playing animator changes nothing and makes no call;
\* pause() on a paused animator changes nothing (it may hand the stale handle to
\* cancelAnimationFrame, which no outstanding request carries); so play();
\* play() leaves what play() leaves and pause(); pause() what pause() leaves.
C16_RepeatedPlayPauseIsNoOp ==
  \A id \in DOMAIN animator :
    LET State(w) == [w EXCEPT !.calls = <<>>]
        p == pause(World, id)
    IN  /\ animator[id].isPlaying =>
              \A time \in Times : play(World, id, time) = World
        /\ ~animator[id].isPlaying =>
              /\ State(p) = World
              /\ \A k \in 1..Len(p.calls) :
                    /\ p.calls[k].fn = "cancelAnimationFrame"
                    /\ \A r \in rafPending : r.handle # p.calls[k].arg
        /\ State(pause(p, id)) = State(p)
        /\ \A t1 \in Times, t2 \in Times :
              play(play(World, id, t1), id, t2) = play(World, id, t1)

\* a paused animator that has been restarted before: pause() hands its stale
\* handle to cancelAnimationFrame and play(); play() starts it once
C16_Witness ==
  \E id \in DOMAIN animator :
    /\ ~animator[id].isPlaying
    /\ animator[id].animationId >= 2
    /\ Live(id)
    /\ Len(pause(World, id).calls) = 1
    /\ \E time \in Times :
         LET w == play(play(World, id, time), id, time)
         IN  /\ w.animator[id].isPlaying
             /\ w.rafNext = rafNext + 1

\* ----------------------------------------------------------------- C17
\* C17: no step changes the userData (rotationSpeed, floatSpeed, floatAmount,
\* pulseSpeed, originalPosition, scale) of an object an animator keeps owning.
C17_ProfileNeverMutated ==
  [][ \A id \in DOMAIN animator :
        \A i \in 1..Len(animator[id].objects) :
          i <= Len(animator'[id].objects) =>
            /\ animator'[id].objects[i].userData = animator[id].objects[i].userData
            /\ animator'[id].objects[i].id = animator[id].objects[i].id
            /\ animator'[id].objects[i].geometry = animator[id].objects[i].geometry ]_vars

\* a playing animator with an object that frame updates have turned and
\* moved off its original height
C17_Witness ==
  \E id \in DOMAIN animator :
    /\ animator[id].isPlaying
    /\ \E i \in 1..Len(animator[id].objects) :
         LET obj == animator[id].objects[i] IN
         /\ obj.rotation.x.lin # 0
         /\ obj.rotation.x.lin = 2 * obj.userData.rotationSpeed.x
         /\ obj.position.y # obj.userData.originalPosition.y

\* ----------------------------------------------------------------- C18
\* C18: on a page with the hero canvas the DOMContentLoaded handler leaves the
\* hero registered with 23 objects: 20 of the five hero kinds (no tetrahedron)
\* followed by 3 icosahedra; a stagger timer that registers a card leaves it
\* with exactly 3 objects.
C18_HeroAndCardObjectCounts ==
  [][ /\ (DOMContentLoaded /\ webgl /\ HeroId \in canvases) =>
          /\ animators' = <<HeroId>>
          /\ LET objs == animator'[HeroId].objects IN
               /\ Len(objs) = 23
               /\ \A i \in 1..20 :
                     objs[i].geometry.class \in
                       { ClassOf(heroTypes[k]) : k \in 1..Len(heroTypes) }
               /\ \A i \in 1..20 : objs[i].geometry.class # "TetrahedronGeometry"
               /\ \A i \in 21..23 : objs[i].geometry.class = "IcosahedronGeometry"
      /\ CardTimer =>
          \A i \in 1..Len(animators') :
            (\A j \in 1..Len(animators) : animators[j] # animators'[i])
              => Len(animator'[animators'[i]].objects) = 3 ]_vars

\* the hero is registered with its 23 objects before any timer has fired
C18_Witness ==
  /\ phase = "ready"
  /\ startupTimer
  /\ animators = <<HeroId>>
  /\ Len(animator[HeroId].objects) = 23
  /\ animator[HeroId].objects[23].geometry.class = "IcosahedronGeometry"

\* ----------------------------------------------------------------- C19
\* C19: when window.WebGLRenderingContext is missing the handler creates no
\* animator, registers none, arms no timer and requests no frame, and the
\* console holds exactly one line, also on a page with several targets.
C19_UnsupportedReportedOnce ==
  (phase # "loading" /\ ~webgl) =>
    /\ phase = "unsupported"
    /\ animator = <<>>
    /\ animators = <<>>
    /\ ~startupTimer
    /\ cardTimers = {}
    /\ rafPending = {}
    /\ rafNext = 1
    /\ console = << [level |-> "warn", id |-> "WebGL"] >>

\* the handler has run without WebGL on a page that has a canvas, and the
\* document has been hidden since
C19_Witness ==
  /\ phase = "unsupported"
  /\ canvases # {}
  /\ hidden
  /\ Len(console) = 1

\* ----------------------------------------------------------------- C20
\* C20 (as stated): in a frame of a playing animator every object is updated,
\* then the camera is moved, then the frame is rendered, and only after that
\* the next frame is requested.
C20_RequestAfterUpdate ==
  \A id \in DOMAIN animator, time \in Times :
    animator[id].isPlaying =>
      LET c == animate(World, id, time).calls IN
      \A k \in 1..Len(c), r \in 1..Len(c) :
        (c[k].fn # "requestAnimationFrame" /\ c[r].fn = "requestAnimationFrame") => k < r

\* C20 (amended): a frame of a playing animator requests the next frame first,
\* exactly once, and then updates every object in order, moves the camera and
\* renders; the request is outstanding when the frame returns, so the next
\* frame runs only after this one has finished.
C20_RequestThenUpdateThenRender ==
  \A id \in DOMAIN animator, time \in Times :
    animator[id].isPlaying =>
      LET w == animate(World, id, time)
          c == w.calls
          n == Len(animator[id].objects)
      IN  /\ Len(c) = n + 3
          /\ c[1] = [fn |-> "requestAnimationFrame", id |-> id, arg |-> rafNext]
          /\ \A i \in 1..n :
                c[i + 1] = [fn |-> "color.setHSL", id |-> id, arg |-> animator[id].objects[i].id]
          /\ c[n + 2].fn = "camera.lookAt"
          /\ c[n + 3].fn = "renderer.render"
          /\ w.animator[id].animationId = rafNext
          /\ [handle |-> rafNext, id |-> id] \in w.rafPending
          /\ w.rafPending \ rafPending = {[handle |-> rafNext, id |-> id]}

\* a playing animator with objects whose frame request is outstanding: the
\* frame callback can run and makes more calls than the request
C20_Witness ==
  \E id \in DOMAIN animator, time \in Times :
    /\ animator[id].isPlaying
    /\ Pending(id) # {}
    /\ animator[id].objects # <<>>
    /\ animator[id].animationId >= 2
    /\ Len(animate(World, id, time).calls) > 3

\* ----------------------------------------------------------------- C21
\* C21: across every step that finds an animator paused and leaves it paused
\* its objects keep transform and color (or are released by dispose()) and the
\* camera stays where it is; a frame callback that runs on a paused animator
\* updates nothing, requests nothing and does not render.
C21_NoUpdateWhilePaused ==
  [][ \A id \in DOMAIN animator :
        (~animator[id].isPlaying /\ ~animator'[id].isPlaying) =>
          /\ animator'[id].objects = animator[id].objects \/ animator'[id].objects = <<>>
          /\ animator'[id].camera.position = animator[id].camera.position
          /\ {p \in rafPending' : p.id = id} = {}
          /\ \A time \in Times : animate(World, id, time) = World ]_vars

\* a live paused animator whose objects have been through two frame updates
\* and whose canvas has been resized since it was constructed
C21_Witness ==
  \E id \in DOMAIN animator :
    /\ ~animator[id].isPlaying
    /\ Live(id)
    /\ Pending(id) = {}
    /\ animator[id].animationId >= 2
    /\ animator[id].objects # <<>>
    /\ \A i \in 1..Len(animator[id].objects) :
          animator[id].objects[i].material.color.space = "hsl"

\* ----------------------------------------------------------------- C22
\* C22: an animator is playing with one frame request outstanding from the
\* step that constructs it; a live playing animator always has exactly one
\* outstanding request, the one animationId names; and while the document is
\* shown and handles remain, the frame a live playing animator has requested
\* is run (or the animator is paused or disposed first).
C22_RunningLoopNeverStalls ==
  /\ [](\A id \in DOMAIN animator :
          (Live(id) /\ animator[id].isPlaying) =>
            Pending(id) = {[handle |-> animator[id].animationId, id |-> id]})
  /\ [][ \A id \in DOMAIN animator' \ DOMAIN animator :
            /\ animator'[id].isPlaying
            /\ {p \in rafPending' : p.id = id}
                 = {[handle |-> animator'[id].animationId, id |-> id]} ]_vars
  /\ \A id \in Targets, h \in 1..MaxHandle :
        (id \in DOMAIN animator /\ Live(id) /\ animator[id].isPlaying
           /\ animator[id].animationId = h)
        ~> ( \/ id \in DOMAIN animator /\ animator[id].animationId # h
             \/ id \in DOMAIN animator /\ ~animator[id].isPlaying
             \/ id \in DOMAIN animator /\ ~Live(id)
             \/ hidden
             \/ rafNext > MaxHandle )

\* a live playing animator in a shown document whose third frame is requested
C22_Witness ==
  \E id \in DOMAIN animator :
    /\ Live(id)
    /\ animator[id].isPlaying
    /\ ~hidden
    /\ animator[id].animationId = 3
    /\ Pending(id) = {[handle |-> 3, id |-> id]}
    /\ intersecting[id] = "none"

\* ----------------------------------------------------------------- C24
\* C24: every object an animator owns has the x and z of its originalPosition
\* and a y within one floatAmount of the original y, and the frame that runs
\* next puts y at the original y plus that frame's float offset whatever y was
\* before, leaving x and z alone.
C24_FloatIsRelativeToOrigin ==
  \A id \in DOMAIN animator :
    LET objs == animator[id].objects IN
    /\ \A i \in 1..Len(objs) :
          LET u == objs[i].userData IN
          /\ objs[i].position.x = u.originalPosition.x
          /\ objs[i].position.z = u.originalPosition.z
          /\ objs[i].position.y - u.originalPosition.y
               \in {-u.floatAmount, 0, u.floatAmount}
    /\ animator[id].isPlaying =>
          \A time \in Times :
            LET new == animate(World, id, time).animator[id].objects IN
            /\ Len(new) = Len(objs)
            /\ \A i \in 1..Len(objs) :
                  LET u == objs[i].userData IN
                  /\ new[i].position.x = u.originalPosition.x
                  /\ new[i].position.z = u.originalPosition.z
                  /\ new[i].position.y
                       = u.originalPosition.y
                         + SinQ(time * u.floatSpeed + (i - 1)) * u.floatAmount

\* after three frames one object floats above its origin and another below
C24_Witness ==
  \E id \in DOMAIN animator :
    LET objs == animator[id].objects IN
    /\ animator[id].animationId >= 3
    /\ animator[id].isPlaying
    /\ \E i, j \in 1..Len(objs) :
          /\ objs[i].position.y > objs[i].userData.originalPosition.y
          /\ objs[j].position.y < objs[j].userData.originalPosition.y

\* ----------------------------------------------------------------- C25
\* C25: a visibilitychange, intersection or resize event that arrives after
\* dispose() leaves the disposed animator stopped: isPlaying stays false and no
\* frame request of it is outstanding.
C25_DisposedIsTerminal ==
  [][ (VisibilityChange \/ Intersection \/ Resize) =>
        \A id \in DOMAIN animator :
          animator[id].renderer.disposals > 0 =>
            /\ ~animator'[id].isPlaying
            /\ {p \in rafPending' : p.id = id} = {} ]_vars

\* ----------------------------------------------------------------- C23
\* C23: while the startup timer is armed (or init() has not run) no card
\* animator exists; a card animator exists only after the hero animator (when
\* the hero canvas exists) and only after every card earlier in the
\* configuration list whose canvas exists; a step constructs at most one
\* animator, a card only from a stagger timer; the registry lists the hero
\* first and the cards in configuration order; and once init() has run, unless
\* the pool is disposed, every card whose canvas exists ends up registered.
C23_StaggeredCreationInOrder ==
  /\ []((phase = "loading" \/ startupTimer) => DOMAIN animator \cap CardIds = {})
  /\ [](\A i \in CardIndices :
          cardConfigs[i].id \in DOMAIN animator =>
            /\ HeroId \in canvases => HeroId \in DOMAIN animator
            /\ \A j \in 1..(i - 1) :
                 cardConfigs[j].id \in canvases => cardConfigs[j].id \in DOMAIN animator)
  /\ [](\A p, q \in 1..Len(animators) :
          p < q =>
            /\ animators[q] # HeroId
            /\ \A i, j \in CardIndices :
                 (animators[p] = cardConfigs[i].id /\ animators[q] = cardConfigs[j].id)
                   => i < j)
  /\ [][ /\ Cardinality(DOMAIN animator' \ DOMAIN animator) <= 1
         /\ (DOMAIN animator' \ DOMAIN animator) \cap CardIds # {} =>
              /\ CardTimer
              /\ Cardinality(cardTimers \ cardTimers') = 1 ]_vars
  /\ (phase = "ready")
       ~> ( \/ poolDisposed
            \/ /\ AllTimersRun
               /\ \A i \in CardIndices :
                    cardConfigs[i].id \in canvases => cardConfigs[i].id \in Registered )

\* every canvas exists, every timer has run, and the registry holds the hero
\* followed by every card
C23_Witness ==
  /\ canvases = Targets
  /\ AllTimersRun
  /\ ~poolDisposed
  /\ Len(animators) = NumCards + 1
  /\ animators[1] = HeroId
  /\ \A i \in CardIndices : animators[i + 1] = cardConfigs[i].id

\* ----------------------------------------------------------------- C26
\* the three pieces of menu state say the same
MenuAgrees(m) ==
  /\ m.active <=> m.ariaExpanded = "true"
  /\ m.active <=> m.overflow = "hidden"

\* C26: in every state the menu has the 'active' class iff the toggle's
\* aria-expanded is 'true' iff the body's overflow is 'hidden'; from every
\* state of a page that has the menu a click on the toggle flips the menu, and
\* a click on a link, a click outside the nav container and the Escape key
\* each leave it closed.
C26_MenuStateAgrees ==
  /\ MenuAgrees(menu)
  /\ menu.wired =>
       /\ onClick(menu, "toggle").active = ~menu.active
       /\ ~onClick(menu, "link").active
       /\ ~onClick(menu, "outside").active
       /\ ~onKeyDown(menu, "Escape").active
       /\ \A target \in ClickTargets : MenuAgrees(onClick(menu, target))
       /\ \A key \in Keys : MenuAgrees(onKeyDown(menu, key))

\* the menu of a page that has one has been opened with the toggle
C26_Witness ==
  /\ menu.wired
  /\ menu.active
  /\ menu.ariaExpanded = "true"
  /\ menu.overflow = "hidden"

\* ----------------------------------------------------------------- C27
\* C27: after every mouseenter or mouseleave at most one tooltip node is
\* attached to the document, and after a mouseleave none is.
C27_AtMostOneTooltip ==
  [][ /\ Cardinality(tooltip'.attached) <= 1
      /\ MouseLeave => tooltip'.attached = {} ]_vars

\* ----------------------------------------------------------------- C28
\* C28: at most one updateHeader request is outstanding, and one is exactly
\* when ticking is set; every scroll event leaves one outstanding; when none
\* is outstanding the header has the style of the current scroll position (or
\* no scroll has happened yet); and an outstanding update runs.
C28_HeaderUpdateThrottled ==
  /\ [](header.requests <= 1 /\ (header.ticking <=> header.requests = 1))
  /\ [][ Scroll => (header'.ticking /\ header'.requests = 1) ]_vars
  /\ [](~header.ticking => header.style \in {"unset", HeaderStyle(header.scrollY)})
  /\ [][ header.style # "unset" => header'.style # "unset" ]_vars
  /\ (header.requests > 0) ~> (header.requests = 0 /\ header.style = HeaderStyle(header.scrollY))

\* an update is outstanding for a header that has been styled before and no
\* longer shows the style of the current scroll position
C28_Witness ==
  /\ header.ticking
  /\ header.requests = 1
  /\ header.style = "top"
  /\ HeaderStyle(header.scrollY) = "scrolled"

====
